---------------------------- MODULE Spec2Model ----------------------------
(***************************************************************************)
(* A model of the claim-parsing pipeline of patentdata:                    *)
(*   src/models/corpus_models.py        class Claim                        *)
(*   src/patentdata/models/basemodels.py class BaseTextBlock               *)
(*                                                                         *)
(* Strings are TLA+ strings; offsets into them are Python's (0-based,      *)
(* end-exclusive).  Python's dict is modelled as the sequence of its       *)
(* (key, value) items in insertion order.                                  *)
(***************************************************************************)
EXTENDS Integers, Sequences, FiniteSets, TLC

VARIABLES
    obj,             \* the class of the object: "Claim" or "BaseTextBlock"
    pc,              \* the statement of the method that runs next
    text,            \* self.text
    arg_number,      \* the constructor's argument number
    arg_dependency,  \* the constructor's argument dependency
    number,          \* self.number
    category,        \* self.category
    dependency,      \* self.dependency
    warnings,        \* the lines printed by the constructor
    words,           \* self.words
    pos,             \* self.pos
    ptree,           \* label_nounphrases' local ptree (the chunk parse)
    np_log,          \* label_nounphrases' locals after each turn of its loop
    word_data,       \* self.word_data
    mapping_dict,    \* self.mapping_dict
    features         \* self.features

vars == << obj, pc, text, arg_number, arg_dependency, number, category,
           dependency, warnings, words, pos, ptree, np_log, word_data,
           mapping_dict, features >>

\* Python's None, where the other values are integers >= 0
None == -1

\* the "" of pos_to_np.get(i, ""), where the other values are integers >= 1
NoNP == 0

-----------------------------------------------------------------------------
(* Strings and the character classes of Python's re module.                *)

\* s[k:e]
Slice(s, k, e) == SubSeq(s, k + 1, e)

\* s[k], or "" past the end
CharAt(s, k) == IF k >= 0 /\ k < Len(s) THEN SubSeq(s, k + 1, k + 1) ELSE ""

\* the literal lit matches s at offset k
LitAt(s, k, lit) == k + Len(lit) <= Len(s) /\ Slice(s, k, k + Len(lit)) = lit

\* \s
IsSpace(c) == c \in {" ", "\n", "\t"}

\* \d
IsDigit(c) == c \in {"0", "1", "2", "3", "4", "5", "6", "7", "8", "9"}

\* [\w-]
IsWordChar(c) ==
    \/ IsDigit(c)
    \/ c \in {"_", "-"}
    \/ c \in {"a", "b", "c", "d", "e", "f", "g", "h", "i", "j", "k", "l", "m",
              "n", "o", "p", "q", "r", "s", "t", "u", "v", "w", "x", "y", "z"}
    \/ c \in {"A", "B", "C", "D", "E", "F", "G", "H", "I", "J", "K", "L", "M",
              "N", "O", "P", "Q", "R", "S", "T", "U", "V", "W", "X", "Y", "Z"}

\* the offset after the greedy \s* that starts at offset k
RECURSIVE SkipSpaces(_, _)
SkipSpaces(s, k) ==
    IF IsSpace(CharAt(s, k)) THEN SkipSpaces(s, k + 1) ELSE k

\* the offset after the greedy \d* that starts at offset k
RECURSIVE SkipDigits(_, _)
SkipDigits(s, k) ==
    IF IsDigit(CharAt(s, k)) THEN SkipDigits(s, k + 1) ELSE k

\* $ : at the end of the string, or just before a newline that ends it
DollarAt(s, k) == k = Len(s) \/ (k = Len(s) - 1 /\ CharAt(s, k) = "\n")

DigitValue(c) ==
    CASE c = "0" -> 0 [] c = "1" -> 1 [] c = "2" -> 2 [] c = "3" -> 3
      [] c = "4" -> 4 [] c = "5" -> 5 [] c = "6" -> 6 [] c = "7" -> 7
      [] c = "8" -> 8 [] c = "9" -> 9

\* int(s) of a string of digits
RECURSIVE ParseInt(_)
ParseInt(s) ==
    IF Len(s) = 0 THEN 0
    ELSE 10 * ParseInt(SubSeq(s, 1, Len(s) - 1)) + DigitValue(CharAt(s, Len(s) - 1))

\* s.strip()
RECURSIVE LStrip(_)
LStrip(s) == IF Len(s) > 0 /\ IsSpace(CharAt(s, 0)) THEN LStrip(Tail(s)) ELSE s

RECURSIVE RStrip(_)
RStrip(s) ==
    IF Len(s) > 0 /\ IsSpace(CharAt(s, Len(s) - 1))
    THEN RStrip(SubSeq(s, 1, Len(s) - 1))
    ELSE s

Strip(s) == RStrip(LStrip(s))

\* the concatenation of up to n strings of the set pieces
RECURSIVE Texts(_, _)
Texts(pieces, n) ==
    IF n = 0 THEN {""}
    ELSE LET shorter == Texts(pieces, n - 1)
         IN  shorter \cup { t \o p : t \in shorter, p \in pieces }

-----------------------------------------------------------------------------
(* Claim.split_into_features                                               *)

\* where a match of split_expression that starts at offset k ends, or -1:
\*   (;\s*(and)?)|(,.?(and)?\n)|(:\s*)|(\.\s*$)
SemicolonEnd(s, k) ==
    IF CharAt(s, k) # ";" THEN -1
    ELSE LET e == SkipSpaces(s, k + 1)
         IN  IF LitAt(s, e, "and") THEN e + 3 ELSE e

\* ,.?(and)?\n with .? and (and)? greedy, tried in the order of backtracking
CommaEnd(s, k) ==
    IF CharAt(s, k) # "," THEN -1
    ELSE LET dot   == CharAt(s, k + 1) \notin {"", "\n"}
             Try(d, a) ==
                 /\ d = 1 => dot
                 /\ a = 1 => LitAt(s, k + 1 + d, "and")
                 /\ CharAt(s, k + 1 + d + 3 * a) = "\n"
         IN  CASE Try(1, 1) -> k + 6
               [] Try(1, 0) -> k + 3
               [] Try(0, 1) -> k + 5
               [] Try(0, 0) -> k + 2
               [] OTHER     -> -1

ColonEnd(s, k) ==
    IF CharAt(s, k) # ":" THEN -1 ELSE SkipSpaces(s, k + 1)

\* \.\s*$ : the longest run of whitespace after which $ holds
PeriodEnd(s, k) ==
    IF CharAt(s, k) # "." THEN -1
    ELSE LET ends == { e \in (k + 1)..SkipSpaces(s, k + 1) : DollarAt(s, e) }
         IN  IF ends = {} THEN -1
             ELSE CHOOSE e \in ends : \A f \in ends : f <= e

DelimiterEnd(s, k) ==
    CASE SemicolonEnd(s, k) # -1 -> SemicolonEnd(s, k)
      [] CommaEnd(s, k) # -1     -> CommaEnd(s, k)
      [] ColonEnd(s, k) # -1     -> ColonEnd(s, k)
      [] OTHER                   -> PeriodEnd(s, k)

\* the loop over p.finditer(self.text): scan is where the search resumes,
\* startindex the loop's variable
RECURSIVE FeatureList(_, _, _)
FeatureList(s, scan, startindex) ==
    IF scan >= Len(s) THEN << >>
    ELSE LET endindex == DelimiterEnd(s, scan)
         IN  IF endindex = -1 THEN FeatureList(s, scan + 1, startindex)
             ELSE << [startindex |-> startindex,
                      endindex   |-> endindex,
                      text       |-> Slice(s, startindex, endindex)] >>
                  \o FeatureList(s, endindex, endindex)

split_into_features(s) == FeatureList(s, 0, 0)

-----------------------------------------------------------------------------
(* Claim.get_number                                                        *)

\* where a match of \d+\. that starts at offset k ends, or -1
NumberEnd(s, k) ==
    LET e == SkipDigits(s, k)
    IN  IF e > k /\ CharAt(s, e) = "." THEN e + 1 ELSE -1

\* p.search: the least of the offsets at which the pattern matches, or -1
Leftmost(starts) ==
    IF starts = {} THEN -1
    ELSE CHOOSE k \in starts : \A j \in starts : k <= j

\* the pair (number, text) that get_number returns
get_number(s) ==
    LET k == Leftmost({ j \in 0..Len(s) : NumberEnd(s, j) # -1 })
    IN  IF k # -1
        THEN [number |-> ParseInt(Slice(s, k, NumberEnd(s, k) - 1)),
              text   |-> Strip(Slice(s, NumberEnd(s, k), Len(s)))]
        ELSE [number |-> None, text |-> s]

-----------------------------------------------------------------------------
(* Claim.detect_category                                                   *)

RECURSIVE SkipWordChars(_, _)
SkipWordChars(s, k) ==
    IF IsWordChar(CharAt(s, k)) THEN SkipWordChars(s, k + 1) ELSE k

\* ([\w-]+\s)*(method|process)\s matches s at offset k
RECURSIVE CategoryWords(_, _)
CategoryWords(s, k) ==
    \/ LitAt(s, k, "method") /\ IsSpace(CharAt(s, k + 6))
    \/ LitAt(s, k, "process") /\ IsSpace(CharAt(s, k + 7))
    \/ LET e == SkipWordChars(s, k)
       IN  e > k /\ IsSpace(CharAt(s, e)) /\ CategoryWords(s, e + 1)

\* (A|An|The)\s([\w-]+\s)*(method|process)\s(of|for)? matches s at offset k;
\* the optional (of|for) never decides whether it does
CategoryAt(s, k) ==
    \E article \in {"A", "An", "The"} :
        /\ LitAt(s, k, article)
        /\ IsSpace(CharAt(s, k + Len(article)))
        /\ CategoryWords(s, k + Len(article) + 1)

detect_category(s) ==
    IF \E k \in 0..Len(s) : CategoryAt(s, k) THEN "method" ELSE "system"

-----------------------------------------------------------------------------
(* Claim.detect_dependency                                                 *)

\* \s(C|c)laims?\s\d+ : where it ends when it matches s at offset k, or -1
ClaimRefEnd(s, k) ==
    LET c == k + 1
        n == IF CharAt(s, c + 5) = "s" THEN c + 6 ELSE c + 5
        e == SkipDigits(s, n + 1)
    IN  IF /\ IsSpace(CharAt(s, k))
           /\ CharAt(s, c) \in {"C", "c"}
           /\ LitAt(s, c + 1, "laim")
           /\ IsSpace(CharAt(s, n))
           /\ e > n + 1
        THEN e ELSE -1

\* (\sto\s\d+) : where it ends when it matches s at offset k, or -1
RangeEnd(s, k) ==
    LET e == SkipDigits(s, k + 4)
    IN  IF /\ IsSpace(CharAt(s, k))
           /\ LitAt(s, k + 1, "to")
           /\ IsSpace(CharAt(s, k + 3))
           /\ e > k + 4
        THEN e ELSE -1

\* (\sor\s(C|c)laim\s\d+) : where it ends when it matches s at offset k, or -1
AlternativeEnd(s, k) ==
    LET e == SkipDigits(s, k + 10)
    IN  IF /\ IsSpace(CharAt(s, k))
           /\ LitAt(s, k + 1, "or")
           /\ IsSpace(CharAt(s, k + 3))
           /\ CharAt(s, k + 4) \in {"C", "c"}
           /\ LitAt(s, k + 5, "laim")
           /\ IsSpace(CharAt(s, k + 9))
           /\ e > k + 10
        THEN e ELSE -1

\* (,\swherein)? : where it ends when tried at offset k
WhereinEnd(s, k) ==
    IF CharAt(s, k) = "," /\ IsSpace(CharAt(s, k + 1)) /\ LitAt(s, k + 2, "wherein")
    THEN k + 9 ELSE k

\* where a match of the pattern of detect_dependency that starts at offset k
\* ends, or -1:
\*   (of|to|with|in)?\s(C|c)laims?\s\d+((\sto\s\d+)|(\sor\s(C|c)laim\s\d+))?(,\swherein)?
\* (at most one of the alternatives of the prefix, the empty one included,
\* can be followed by \s(C|c)laim at the same offset)
DependencyEnd(s, k) ==
    LET prefixes == { p \in {"of", "to", "with", "in", ""} :
                          LitAt(s, k, p) /\ ClaimRefEnd(s, k + Len(p)) # -1 }
    IN  IF prefixes = {} THEN -1
        ELSE LET p == CHOOSE q \in prefixes : TRUE
                 e == ClaimRefEnd(s, k + Len(p))
                 f == IF RangeEnd(s, e) # -1 THEN RangeEnd(s, e)
                      ELSE IF AlternativeEnd(s, e) # -1 THEN AlternativeEnd(s, e)
                      ELSE e
             IN  WhereinEnd(s, f)

\* \s(preceding|previous)\s(C|c)laims?(,\swherein)? : where it ends when it
\* matches s at offset k, or -1
PrecedingEnd(s, k) ==
    LET found == { w \in {"preceding", "previous"} : LitAt(s, k + 1, w) }
    IN  IF ~IsSpace(CharAt(s, k)) \/ found = {} THEN -1
        ELSE LET w == CHOOSE v \in found : TRUE
                 c == k + 1 + Len(w) + 1
                 n == IF CharAt(s, c + 5) = "s" THEN c + 6 ELSE c + 5
             IN  IF /\ IsSpace(CharAt(s, c - 1))
                    /\ CharAt(s, c) \in {"C", "c"}
                    /\ LitAt(s, c + 1, "laim")
                 THEN WhereinEnd(s, n) ELSE -1

\* FirstInt with the last run of digits of group taken instead of the first
FirstInt_LastRun(group) ==
    LET d == CHOOSE k \in 0..(Len(group) - 1) :
                 /\ IsDigit(CharAt(group, k))
                 /\ ~IsDigit(CharAt(group, k - 1))
                 /\ \A j \in SkipDigits(group, k)..(Len(group) - 1) :
                        ~IsDigit(CharAt(group, j))
    IN  ParseInt(Slice(group, d, SkipDigits(group, d)))

\* int(num.search(group).group()): the first run of digits of group
FirstInt(group) ==
    LET d == CHOOSE k \in 0..(Len(group) - 1) :
                 /\ IsDigit(CharAt(group, k))
                 /\ \A j \in 0..(k - 1) : ~IsDigit(CharAt(group, j))
    IN  ParseInt(Slice(group, d, SkipDigits(group, d)))

detect_dependency(s) ==
    LET k == Leftmost({ j \in 0..Len(s) : DependencyEnd(s, j) # -1 })
    IN  IF k # -1 THEN FirstInt(Slice(s, k, DependencyEnd(s, k)))
        ELSE IF Leftmost({ j \in 0..Len(s) : PrecedingEnd(s, j) # -1 }) # -1 THEN 1
        ELSE 0

-----------------------------------------------------------------------------
(* The chunk parse of label_nounphrases: cp = nltk.RegexpParser(grammar),  *)
(* result = cp.parse(self.pos).  A tagged token is the pair <<word, tag>>. *)
(* The three rules of NP are applied one after the other to the whole      *)
(* sentence; a rule chunks, from left to right, every longest match that   *)
(* lies among tokens no earlier rule has chunked.                          *)
(*   NP: {<DT|PRP\$> <VBG> <NN.*>+}                                        *)
(*       {<DT|PRP\$> <NN.*> <POS> <JJ>* <NN.*>+}                           *)
(*       {<DT|PRP\$>? <JJ>* <NN.*>+ }                                      *)

\* tag matches the tag pattern <pattern>
TagMatches(pattern, tag) ==
    CASE pattern = "DT|PRP\\$" -> tag \in {"DT", "PRP$"}
      [] pattern = "NN.*"      -> Len(tag) >= 2 /\ SubSeq(tag, 1, 2) = "NN"
      [] OTHER                 -> tag = pattern

\* token i of the sentence is outside every chunk (chunk[i] = 0) and its tag
\* matches <pattern>
FreeAt(tagged, chunk, i, pattern) ==
    i >= 1 /\ i <= Len(tagged) /\ chunk[i] = 0 /\ TagMatches(pattern, tagged[i][2])

\* the length of the longest run of free tokens from i that match <pattern>
RECURSIVE RunLength(_, _, _, _)
RunLength(tagged, chunk, i, pattern) ==
    IF FreeAt(tagged, chunk, i, pattern)
    THEN 1 + RunLength(tagged, chunk, i + 1, pattern) ELSE 0

\* the number of tokens rule matches from token i on, or 0
MatchLength(rule, tagged, chunk, i) ==
    LET det == IF FreeAt(tagged, chunk, i, "DT|PRP\\$") THEN 1 ELSE 0
    IN  CASE rule = 1 ->
               LET nn == RunLength(tagged, chunk, i + 2, "NN.*")
               IN  IF det = 1 /\ FreeAt(tagged, chunk, i + 1, "VBG") /\ nn >= 1
                   THEN 2 + nn ELSE 0
          [] rule = 2 ->
               LET jj == RunLength(tagged, chunk, i + 3, "JJ")
                   nn == RunLength(tagged, chunk, i + 3 + jj, "NN.*")
               IN  IF /\ det = 1
                      /\ FreeAt(tagged, chunk, i + 1, "NN.*")
                      /\ FreeAt(tagged, chunk, i + 2, "POS")
                      /\ nn >= 1
                   THEN 3 + jj + nn ELSE 0
          [] rule = 3 ->
               LET jj == RunLength(tagged, chunk, i + det, "JJ")
                   nn == RunLength(tagged, chunk, i + det + jj, "NN.*")
               IN  IF nn >= 1 THEN det + jj + nn ELSE 0

\* one rule over the sentence from token i on; chunk[j] is the first token
\* of the chunk token j lies in, or 0
RECURSIVE ApplyRule(_, _, _, _)
ApplyRule(rule, tagged, chunk, i) ==
    IF i > Len(tagged) THEN chunk
    ELSE LET n == IF chunk[i] = 0 THEN MatchLength(rule, tagged, chunk, i) ELSE 0
         IN  IF n = 0 THEN ApplyRule(rule, tagged, chunk, i + 1)
             ELSE ApplyRule(rule, tagged,
                            [j \in 1..Len(tagged) |->
                                IF j >= i /\ j < i + n THEN i ELSE chunk[j]],
                            i + n)

Chunking(tagged) ==
    LET c0 == [j \in 1..Len(tagged) |-> 0]
        c1 == ApplyRule(1, tagged, c0, 1)
        c2 == ApplyRule(2, tagged, c1, 1)
    IN  ApplyRule(3, tagged, c2, 1)

\* the children of the root of the parse: a token outside every chunk is a
\* child by itself (label ""), a chunk is a child labelled "NP"
RECURSIVE Children(_, _, _)
Children(tagged, chunk, i) ==
    IF i > Len(tagged) THEN << >>
    ELSE IF chunk[i] = 0
         THEN << [label |-> "", leaves |-> << tagged[i] >>] >>
              \o Children(tagged, chunk, i + 1)
         ELSE LET n == Cardinality({ j \in 1..Len(tagged) : chunk[j] = i })
              IN  << [label |-> "NP", leaves |-> SubSeq(tagged, i, i + n - 1)] >>
                  \o Children(tagged, chunk, i + n)

Parse(tagged) == Children(tagged, Chunking(tagged), 1)

-----------------------------------------------------------------------------
(* Claim.label_nounphrases                                                 *)

\* the value of the expression ("DT" or "PRP$")
ExcludedTag == "DT"

\* " ".join([leaf[0] for leaf in leaves if leaf[1] != ("DT" or "PRP$")])
RECURSIVE Join(_)
Join(strings) ==
    IF Len(strings) = 0 THEN ""
    ELSE IF Len(strings) = 1 THEN strings[1]
    ELSE strings[1] \o " " \o Join(Tail(strings))

JoinWords(leaves) ==
    LET kept == SelectSeq(leaves, LAMBDA leaf : leaf[2] # ExcludedTag)
    IN  Join([k \in 1..Len(kept) |-> kept[k][1]])

\* utils.ends_with(s1, s2), called as utils.ends_with(np_string, np) for a
\* key np of mapping_dict.  The module utils is not among the sources; this
\* is the specification's "suffix match (word-boundary-aware ends with) of an
\* existing key": s1 is s2, or s2 ends with a space and then s1
ends_with(s1, s2) ==
    /\ Len(s1) <= Len(s2)
    /\ Slice(s2, Len(s2) - Len(s1), Len(s2)) = s1
    /\ Len(s1) = Len(s2) \/ CharAt(s2, Len(s2) - Len(s1) - 1) = " "

\* mapping_dict.get(key, None)
DictGet(dict, key) ==
    LET hits == { i \in 1..Len(dict) : dict[i].key = key }
    IN  IF hits = {} THEN None ELSE dict[CHOOSE i \in hits : TRUE].value

\* [np for np in nps if utils.ends_with(np_string, np)]
RECURSIVE EndsWithList(_, _)
EndsWithList(np_string, dict) ==
    IF dict = << >> THEN << >>
    ELSE (IF ends_with(np_string, Head(dict).key) THEN << Head(dict).key >> ELSE << >>)
         \o EndsWithList(np_string, Tail(dict))

\* Resolve with the new ID taken as len(mapping_dict), without the + 1
Resolve_IdFromSize(dict, np_string) ==
    LET np_id == DictGet(dict, np_string)
        ends_with_list == EndsWithList(np_string, dict)
    IN  IF np_id # None /\ np_id # 0
        THEN [np_id |-> np_id, dict |-> dict]
        ELSE IF ends_with_list # << >>
        THEN [np_id |-> DictGet(dict, ends_with_list[1]), dict |-> dict]
        ELSE [np_id |-> Len(dict),
              dict  |-> Append(dict, [key |-> np_string, value |-> Len(dict)])]

\* Resolve with ends_with_list[-1] taken instead of ends_with_list[0]
Resolve_LastMatch(dict, np_string) ==
    LET np_id == DictGet(dict, np_string)
        ends_with_list == EndsWithList(np_string, dict)
    IN  IF np_id # None /\ np_id # 0
        THEN [np_id |-> np_id, dict |-> dict]
        ELSE IF ends_with_list # << >>
        THEN [np_id |-> DictGet(dict, ends_with_list[Len(ends_with_list)]),
              dict  |-> dict]
        ELSE [np_id |-> Len(dict) + 1,
              dict  |-> Append(dict, [key |-> np_string, value |-> Len(dict) + 1])]

\* Resolve without the ends_with branch
Resolve_NoEndsWith(dict, np_string) ==
    LET np_id == DictGet(dict, np_string)
    IN  IF np_id # None /\ np_id # 0
        THEN [np_id |-> np_id, dict |-> dict]
        ELSE [np_id |-> Len(dict) + 1,
              dict  |-> Append(dict, [key |-> np_string, value |-> Len(dict) + 1])]

\* the noun-phrase ID of one chunk, and mapping_dict after it
Resolve(dict, np_string) ==
    LET np_id == DictGet(dict, np_string)
        ends_with_list == EndsWithList(np_string, dict)
    IN  IF np_id # None /\ np_id # 0
        THEN [np_id |-> np_id, dict |-> dict]
        ELSE IF ends_with_list # << >>
        THEN [np_id |-> DictGet(dict, ends_with_list[1]), dict |-> dict]
        ELSE [np_id |-> Len(dict) + 1,
              dict  |-> Append(dict, [key |-> np_string, value |-> Len(dict) + 1])]

\* the loop over subtrees, from child i of the root on: mapping_dict,
\* pos_to_np (keyed by the child's parent_index(), i - 1) and, for every
\* turn of the loop, st.parent_index(), np_string, np_id and mapping_dict
RECURSIVE LabelLoop(_, _, _)
LabelLoop(tree, i, acc) ==
    IF i > Len(tree) THEN acc
    ELSE IF tree[i].label # "NP" THEN LabelLoop(tree, i + 1, acc)
    ELSE LET np_string == JoinWords(tree[i].leaves)
             r == Resolve(acc.mapping_dict, np_string)
         IN  LabelLoop(tree, i + 1,
                 [mapping_dict |-> r.dict,
                  pos_to_np    |-> acc.pos_to_np @@ ((i - 1) :> r.np_id),
                  np_log       |-> Append(acc.np_log,
                                      [parent_index |-> i - 1,
                                       np_string    |-> np_string,
                                       np_id        |-> r.np_id,
                                       mapping_dict |-> r.dict])])

\* Triples with a chunk handled as a leaf is: one triple, of its first leaf
Triples_AsLeaf(child, i, pos_to_np) ==
    LET np == IF i \in DOMAIN pos_to_np THEN pos_to_np[i] ELSE NoNP
    IN  << << child.leaves[1][1], child.leaves[1][2], np >> >>

\* the triples of child i of the root (pos_to_np.get(i, "") with each leaf)
Triples(child, i, pos_to_np) ==
    LET np == IF i \in DOMAIN pos_to_np THEN pos_to_np[i] ELSE NoNP
    IN  [k \in 1..Len(child.leaves) |->
            << child.leaves[k][1], child.leaves[k][2], np >>]

RECURSIVE FlatList(_, _, _)
FlatList(tree, i, pos_to_np) ==
    IF i > Len(tree) THEN << >>
    ELSE Triples(tree[i], i - 1, pos_to_np) \o FlatList(tree, i + 1, pos_to_np)

label_nounphrases(tagged) ==
    LET tree == Parse(tagged)
        loop == LabelLoop(tree, 1, [mapping_dict |-> << >>,
                                    pos_to_np    |-> << >>,
                                    np_log       |-> << >>])
    IN  [ptree        |-> tree,
         np_log       |-> loop.np_log,
         word_data    |-> FlatList(tree, 1, loop.pos_to_np),
         mapping_dict |-> loop.mapping_dict]

-----------------------------------------------------------------------------
(* The state of an object none of whose derived fields is computed yet.    *)

Blank ==
    /\ obj = "Claim"
    /\ arg_number = None
    /\ arg_dependency = None
    /\ number = None
    /\ category = ""
    /\ dependency = None
    /\ warnings = << >>
    /\ words = << >>
    /\ pos = << >>
    /\ ptree = << >>
    /\ np_log = << >>
    /\ word_data = << >>
    /\ mapping_dict = << >>
    /\ features = << >>

-----------------------------------------------------------------------------
(* The statements of Claim.__init__, one action each, and                  *)
(* BaseTextBlock.set_pos.  nltk.word_tokenize and nltk.pos_tag are not     *)
(* part of the repository: the tokens are an input, and the tagger may     *)
(* give any token any tag of TaggerTags.                                   *)

\* bool(value) of an argument: None and 0 are false
Truthy(value) == value # None /\ value # 0

\* parsed_number, self.text = self.get_number(); if number: ... else: ...
InitNumber ==
    /\ pc = "get_number"
    /\ LET parsed == get_number(text)
       IN  /\ text' = parsed.text
           /\ IF Truthy(arg_number)
              THEN /\ number' = arg_number
                   /\ warnings' =
                          IF arg_number # parsed.number
                          THEN Append(warnings, "detected claim number does not equal passed claim number")
                          ELSE warnings
              ELSE /\ number' = parsed.number
                   /\ warnings' = warnings
    /\ pc' = "detect_category"
    /\ UNCHANGED << obj, arg_number, arg_dependency, category, dependency,
                    words, pos, ptree, np_log, word_data, mapping_dict,
                    features >>

\* self.category = self.detect_category()
InitCategory ==
    /\ pc = "detect_category"
    /\ category' = detect_category(text)
    /\ pc' = "detect_dependency"
    /\ UNCHANGED << obj, text, arg_number, arg_dependency, number, dependency,
                    warnings, words, pos, ptree, np_log, word_data,
                    mapping_dict, features >>

\* parsed_dependency = self.detect_dependency(); if dependency: ... else: ...
InitDependency ==
    /\ pc = "detect_dependency"
    /\ LET parsed_dependency == detect_dependency(text)
       IN  IF Truthy(arg_dependency)
           THEN /\ dependency' = arg_dependency
                /\ warnings' =
                       IF arg_dependency # parsed_dependency
                       THEN Append(warnings, "detected dependency does not equal passed dependency")
                       ELSE warnings
           ELSE /\ dependency' = parsed_dependency
                /\ warnings' = warnings
    /\ pc' = "get_words"
    /\ UNCHANGED << obj, text, arg_number, arg_dependency, number, category,
                    words, pos, ptree, np_log, word_data, mapping_dict,
                    features >>

TaggerTags == {"VBG", "NN", "DT", "IN"}

\* a result of nltk.pos_tag(tokens)
Tagged(tokens, tags) == [i \in 1..Len(tokens) |-> << tokens[i], tags[i] >>]

\* self.pos = self.get_pos(), which returns nltk.pos_tag(self.words)
GetPos ==
    /\ pc = "get_pos"
    /\ obj = "Claim"
    /\ \E tags \in [1..Len(words) -> TaggerTags] : pos' = Tagged(words, tags)
    /\ pc' = "label_nounphrases"
    /\ UNCHANGED << obj, text, arg_number, arg_dependency, number, category,
                    dependency, warnings, words, ptree, np_log, word_data,
                    mapping_dict, features >>

\* the list comprehension of set_pos: 'comprising' is hard set as VBG
HardSet(pos_list) ==
    [i \in 1..Len(pos_list) |->
        IF pos_list[i][1] # "comprising" THEN pos_list[i]
        ELSE << "comprising", "VBG" >>]

\* BaseTextBlock.set_pos
SetPos ==
    /\ pc = "set_pos"
    /\ obj = "BaseTextBlock"
    /\ \E tags \in [1..Len(words) -> TaggerTags] :
           pos' = HardSet(Tagged(words, tags))
    /\ pc' = "done"
    /\ UNCHANGED << obj, text, arg_number, arg_dependency, number, category,
                    dependency, warnings, words, ptree, np_log, word_data,
                    mapping_dict, features >>

\* (self.word_data, self.mapping_dict) = self.label_nounphrases()
LabelNounphrases ==
    /\ pc = "label_nounphrases"
    /\ \E labelled \in {label_nounphrases(pos)} :
           /\ ptree' = labelled.ptree
           /\ np_log' = labelled.np_log
           /\ word_data' = labelled.word_data
           /\ mapping_dict' = labelled.mapping_dict
    /\ pc' = "split_into_features"
    /\ UNCHANGED << obj, text, arg_number, arg_dependency, number, category,
                    dependency, warnings, words, pos, features >>

\* self.features = self.split_into_features()
SplitIntoFeatures ==
    /\ pc = "split_into_features"
    /\ features' = split_into_features(text)
    /\ pc' = "done"
    /\ UNCHANGED << obj, text, arg_number, arg_dependency, number, category,
                    dependency, warnings, words, pos, ptree, np_log,
                    word_data, mapping_dict >>

-----------------------------------------------------------------------------
(* The constructor's extraction of number, category and dependency, over   *)
(* bounded texts and arguments.                                            *)

MaxInitPieces == 3

InitPieces == {"2.", " ", "x", " claim 1", "A method "}

Init ==
    /\ obj = "Claim"
    /\ text \in Texts(InitPieces, MaxInitPieces)
    /\ arg_number \in {None, 1, 2}
    /\ arg_dependency \in {None, 0, 1, 2}
    /\ pc = "get_number"
    /\ number = None /\ category = "" /\ dependency = None
    /\ warnings = << >>
    /\ words = << >> /\ pos = << >> /\ ptree = << >> /\ np_log = << >>
    /\ word_data = << >> /\ mapping_dict = << >> /\ features = << >>

Next == InitNumber \/ InitCategory \/ InitDependency

Spec == Init /\ [][Next]_vars

-----------------------------------------------------------------------------
(* detect_dependency over bounded texts.                                   *)

MaxDependencyPieces == 4

DependencyPieces ==
    {" ", "of", "claims 2 to 5", "claim 1", "x", "preceding claims", "3"}

InitDependencyTexts ==
    /\ Blank
    /\ text \in Texts(DependencyPieces, MaxDependencyPieces)
    /\ pc = "detect_dependency"

NextDependency == InitDependency

SpecDependency == InitDependencyTexts /\ [][NextDependency]_vars

-----------------------------------------------------------------------------
(* detect_category over bounded texts.                                     *)

MaxCategoryPieces == 4

CategoryPieces == {"A", "The", " ", "method", "process", "of", "new", ","}

InitCategoryTexts ==
    /\ Blank
    /\ text \in Texts(CategoryPieces, MaxCategoryPieces)
    /\ pc = "detect_category"

NextCategory == InitCategory

SpecCategory == InitCategoryTexts /\ [][NextCategory]_vars

-----------------------------------------------------------------------------
(* The feature segmenter over bounded texts.                               *)

MaxFeaturePieces == 4

FeaturePieces == {";", " ", "and", "a", ",", "\n", ":", "."}

InitFeatures ==
    /\ Blank
    /\ text \in Texts(FeaturePieces, MaxFeaturePieces)
    /\ pc = "split_into_features"

NextFeatures == SplitIntoFeatures

SpecFeatures == InitFeatures /\ [][NextFeatures]_vars

-----------------------------------------------------------------------------
(* Tagging, of a Claim and of a BaseTextBlock, over bounded token          *)
(* sequences.                                                              *)

MaxWords == 3

Vocabulary == {"comprising", "a", "device"}

\* the sequences of up to n elements of the set S
RECURSIVE SeqsUpTo(_, _)
SeqsUpTo(S, n) ==
    IF n = 0 THEN {<< >>}
    ELSE LET shorter == SeqsUpTo(S, n - 1)
         IN  shorter \cup { Append(q, x) : q \in shorter, x \in S }

InitPos ==
    /\ obj \in {"Claim", "BaseTextBlock"}
    /\ text = ""
    /\ arg_number = None /\ arg_dependency = None
    /\ number = None /\ category = "" /\ dependency = None
    /\ warnings = << >>
    /\ words \in SeqsUpTo(Vocabulary, MaxWords)
    /\ pc = IF obj = "Claim" THEN "get_pos" ELSE "set_pos"
    /\ pos = << >> /\ ptree = << >> /\ np_log = << >>
    /\ word_data = << >> /\ mapping_dict = << >> /\ features = << >>

NextPos == GetPos \/ SetPos \/ LabelNounphrases

SpecPos == InitPos /\ [][NextPos]_vars

-----------------------------------------------------------------------------
(* label_nounphrases over bounded tagged sequences: up to MaxPhrases       *)
(* phrases, each a tagged token or a short run of tagged tokens.           *)

MaxPhrases == 4

Phrases ==
    { << <<"the", "DT">>, <<"control", "NN">>, <<"device", "NN">> >>,
      << <<"the", "DT">>, <<"test", "NN">>, <<"device", "NN">> >>,
      << <<"the", "DT">>, <<"device", "NN">> >>,
      << <<"device", "NN">> >>,
      << <<"its", "PRP$">> >>,
      << <<"sensing", "VBG">> >>,
      << <<"'s", "POS">> >>,
      << <<"big", "JJ">> >>,
      << <<"the", "DT">> >>,
      << <<"of", "IN">> >> }

\* the concatenation of up to n phrases
RECURSIVE Sentences(_)
Sentences(n) ==
    IF n = 0 THEN {<< >>}
    ELSE LET shorter == Sentences(n - 1)
         IN  shorter \cup { q \o p : q \in shorter, p \in Phrases }

InitNP ==
    /\ obj = "Claim"
    /\ text = ""
    /\ arg_number = None /\ arg_dependency = None
    /\ number = None /\ category = "" /\ dependency = None
    /\ warnings = << >>
    /\ pos \in Sentences(MaxPhrases)
    /\ words = [i \in 1..Len(pos) |-> pos[i][1]]
    /\ pc = "label_nounphrases"
    /\ ptree = << >> /\ np_log = << >>
    /\ word_data = << >> /\ mapping_dict = << >> /\ features = << >>

NextNP == LabelNounphrases

SpecNP == InitNP /\ [][NextNP]_vars

-----------------------------------------------------------------------------
(* What the claims speak of.                                               *)

\* the three extraction statements of the constructor have run
Extracted == pc = "get_words"

\* label_nounphrases has returned
Labelled == pc = "split_into_features"

\* lit occurs in s
Contains(s, lit) == \E k \in 0..Len(s) : LitAt(s, k, lit)

\* the number of leaves of the first n children of the root
RECURSIVE LeavesBefore(_, _)
LeavesBefore(tree, n) ==
    IF n = 0 THEN 0 ELSE LeavesBefore(tree, n - 1) + Len(tree[n].leaves)

\* the chunk of turn j of the loop, and the noun-phrase ID word_data gives
\* its first token
ChunkOf(j) == ptree[np_log[j].parent_index + 1]
ChunkId(j) == word_data[LeavesBefore(ptree, np_log[j].parent_index) + 1][3]

\* mapping_dict as turn j of the loop found it
DictBefore(j) == IF j = 1 THEN << >> ELSE np_log[j - 1].mapping_dict

\* s is k, or k ends with a space and then s
IsWordSuffix(s, k) ==
    \E n \in 0..Len(k) :
        /\ Slice(k, n, Len(k)) = s
        /\ n = 0 \/ CharAt(k, n - 1) = " "

\* the keys of dict (by position) that s is a word-boundary suffix of
Holders(s, dict) == { m \in 1..Len(dict) : IsWordSuffix(s, dict[m].key) }

-----------------------------------------------------------------------------
\* the texts of the segments fs, concatenated
RECURSIVE ConcatText(_)
ConcatText(fs) == IF fs = << >> THEN "" ELSE Head(fs).text \o ConcatText(Tail(fs))

(* C1: after construction the feature segments, concatenated in order,     *)
(* reproduce the claim's text exactly: the first segment starts at offset  *)
(* 0, the last ends at len(text), and consecutive segments touch.          *)
C1_RoundTrip ==
    pc = "done" =>
        /\ ConcatText(features) = text
        /\ Len(text) > 0 =>
               /\ Len(features) > 0
               /\ features[1].startindex = 0
               /\ features[Len(features)].endindex = Len(text)
        /\ \A i \in 1..(Len(features) - 1) :
               features[i].endindex = features[i + 1].startindex

(* C2: a number or a dependency supplied to the constructor (any value but *)
(* None, 0 included) is the claim's number or dependency, whatever the     *)
(* text parses to.                                                         *)
C2_SuppliedValueWins ==
    Extracted =>
        /\ arg_number # None => number = arg_number
        /\ arg_dependency # None => dependency = arg_dependency

(* C3: in a Claim, every token "comprising" carries the tag VBG in pos and *)
(* in word_data, whatever tag the tagger gave it.                          *)
C3_ComprisingIsGerund ==
    obj = "Claim" =>
        /\ \A i \in 1..Len(pos) :
               pos[i][1] = "comprising" => pos[i][2] = "VBG"
        /\ \A i \in 1..Len(word_data) :
               word_data[i][1] = "comprising" => word_data[i][2] = "VBG"

(* C4: the canonical string of every noun-phrase chunk is the space-joined *)
(* text of exactly its leaves tagged neither DT nor PRP$.                  *)
C4_CanonicalDropsDeterminers ==
    Labelled =>
        \A j \in 1..Len(np_log) :
            LET kept == SelectSeq(ChunkOf(j).leaves,
                                  LAMBDA leaf : leaf[2] \notin {"DT", "PRP$"})
            IN  np_log[j].np_string = Join([k \in 1..Len(kept) |-> kept[k][1]])

(* C5: word_data has the length of pos and word_data[i] carries the token  *)
(* and the tag of pos[i], for tokens inside chunks and outside alike.      *)
C5_EveryTokenOnceInOrder ==
    Labelled =>
        /\ Len(word_data) = Len(pos)
        /\ \A i \in 1..Len(word_data) :
               word_data[i][1] = pos[i][1] /\ word_data[i][2] = pos[i][2]

\* a labelled sentence with a chunk of several tokens and an ungrouped leaf
C5_Witness ==
    /\ Labelled
    /\ \E c \in 1..Len(ptree) : ptree[c].label = "NP" /\ Len(ptree[c].leaves) >= 2
    /\ \E i \in 1..Len(word_data) : word_data[i][3] = NoNP
    /\ \E i \in 1..Len(word_data) : word_data[i][3] # NoNP

(* C6, as claimed: a chunk whose canonical string is a word-boundary       *)
(* suffix of a key K already in mapping_dict gets K's ID, and no key is    *)
(* added.  (Stated of the sentences without a possessive pronoun, whose    *)
(* canonical strings are those of C4.)                                     *)
C6_SuffixGetsIdOfK ==
    Labelled /\ (\A i \in 1..Len(pos) : pos[i][2] # "PRP$") =>
        \A j \in 1..Len(np_log) :
            \A m \in Holders(np_log[j].np_string, DictBefore(j)) :
                /\ ChunkId(j) = DictBefore(j)[m].value
                /\ np_log[j].mapping_dict = DictBefore(j)

(* C6, amended: a chunk whose canonical string is a word-boundary suffix   *)
(* of a key already in mapping_dict adds no key and gets the ID of an      *)
(* existing key: its own if the string is itself a key, otherwise that of  *)
(* the earliest-entered key it is a suffix of.                             *)
C6_SuffixGetsIdOfEarliestKey ==
    Labelled =>
        \A j \in 1..Len(np_log) :
            LET np_string == np_log[j].np_string
                before == DictBefore(j)
                holders == Holders(np_string, before)
                exact == { m \in holders : before[m].key = np_string }
                first == CHOOSE m \in holders : \A n \in holders : m <= n
            IN  holders # {} =>
                    /\ np_log[j].mapping_dict = before
                    /\ exact # {} => \A m \in exact : ChunkId(j) = before[m].value
                    /\ exact = {} => ChunkId(j) = before[first].value

\* a chunk that is no key, is a suffix of two keys and has the first one's ID
C6_Witness ==
    /\ Labelled
    /\ \E j \in 1..Len(np_log) :
           LET holders == Holders(np_log[j].np_string, DictBefore(j))
           IN  /\ Cardinality(holders) >= 2
               /\ \A m \in holders : DictBefore(j)[m].key # np_log[j].np_string
               /\ \A m \in holders : ChunkId(j) <= DictBefore(j)[m].value

\* a whitespace, "claim" or "claims" in either case, a whitespace and a digit
\* start at offset k of s
IsClaimReference(s, k) ==
    /\ IsSpace(CharAt(s, k))
    /\ \E w \in {"claim", "Claim", "claims", "Claims"} :
           /\ LitAt(s, k + 1, w)
           /\ IsSpace(CharAt(s, k + 1 + Len(w)))
           /\ IsDigit(CharAt(s, k + 2 + Len(w)))

(* C7, as claimed: the dependency of every text that contains              *)
(* "claims 2 to 5" is 2.                                                   *)
C7_RangeGivesTwo ==
    Extracted /\ Contains(text, "claims 2 to 5") => dependency = 2

\* "claims 2 to 5" occurs in s after a whitespace, and no claim reference
\* starts before that whitespace
RangeIsFirstReference(s) ==
    \E k \in 1..Len(s) :
        /\ LitAt(s, k, "claims 2 to 5")
        /\ IsSpace(CharAt(s, k - 1))
        /\ \A j \in 0..(k - 2) : ~IsClaimReference(s, j)

(* C7, amended: the dependency of every text in which "claims 2 to 5"      *)
(* follows a whitespace character and no claim reference comes before it   *)
(* is 2.                                                                   *)
C7_FirstReferenceRangeGivesTwo ==
    Extracted /\ RangeIsFirstReference(text) => dependency = 2

\* such a text, with words before the range and a digit after it
C7_Witness ==
    /\ Extracted
    /\ RangeIsFirstReference(text)
    /\ Contains(text, "x claims 2 to 53")
    /\ dependency = 2

\* zero or more words, each followed by a whitespace, and then the word
\* "method" or "process" start at offset k of s
RECURSIVE WordsThenMethod(_, _)
WordsThenMethod(s, k) ==
    \/ \E w \in {"method", "process"} :
           LitAt(s, k, w) /\ ~IsWordChar(CharAt(s, k + Len(w)))
    \/ LET e == SkipWordChars(s, k)
       IN  e > k /\ IsSpace(CharAt(s, e)) /\ WordsThenMethod(s, e + 1)

\* an article, zero or more words and the word "method" or "process"
NamesMethod(s) ==
    \E k \in 0..Len(s) : \E article \in {"A", "An", "The"} :
        /\ LitAt(s, k, article)
        /\ IsSpace(CharAt(s, k + Len(article)))
        /\ WordsThenMethod(s, k + Len(article) + 1)

(* C8: the category is "method" for every text with an article, zero or    *)
(* more words and then the word "method" or "process", whatever follows    *)
(* that word, and "system" for every other text.                           *)
C8_MethodWhateverFollows ==
    pc = "detect_dependency" =>
        /\ category \in {"method", "system"}
        /\ category = "method" <=> NamesMethod(text)

(* C9: the k-th key entered in mapping_dict has the ID k, no key is        *)
(* entered twice, and every noun-phrase ID of word_data is the empty       *)
(* marker or the ID of a key.                                              *)
C9_IdsCountFromOne ==
    Labelled =>
        /\ \A k \in 1..Len(mapping_dict) : mapping_dict[k].value = k
        /\ \A k, l \in 1..Len(mapping_dict) :
               mapping_dict[k].key = mapping_dict[l].key => k = l
        /\ \A j \in 1..Len(np_log) :
               np_log[j].mapping_dict =
                   SubSeq(mapping_dict, 1, Len(np_log[j].mapping_dict))
        /\ \A i \in 1..Len(word_data) :
               \/ word_data[i][3] = NoNP
               \/ \E k \in 1..Len(mapping_dict) :
                      mapping_dict[k].value = word_data[i][3]

\* three keys, a token of the third and a token of no chunk
C9_Witness ==
    /\ Labelled
    /\ Len(mapping_dict) = 3
    /\ \E i \in 1..Len(word_data) : word_data[i][3] = 3
    /\ \E i \in 1..Len(word_data) : word_data[i][3] = NoNP

(* C10: two chunks of one claim with the same canonical string have the    *)
(* same noun-phrase ID, whatever chunks lie between them.                  *)
C10_SameStringSameId ==
    Labelled =>
        \A a, b \in 1..Len(np_log) :
            np_log[a].np_string = np_log[b].np_string => ChunkId(a) = ChunkId(b)

\* a string resolved by suffix match and never made a key, a later chunk that
\* adds a key it is also a suffix of, and the string once more after that
C10_Witness ==
    /\ Labelled
    /\ \E a, m, b \in 1..Len(np_log) :
           /\ a < m /\ m < b
           /\ np_log[a].np_string = np_log[b].np_string
           /\ \A k \in 1..Len(mapping_dict) :
                  mapping_dict[k].key # np_log[a].np_string
           /\ Len(np_log[m].mapping_dict) > Len(DictBefore(m))
           /\ IsWordSuffix(np_log[a].np_string, np_log[m].np_string)
           /\ ChunkId(a) = ChunkId(b)

=============================================================================
